---------------------------- MODULE Spec2Model ----------------------------
(***************************************************************************)
(* Device session controller of the CAN console (src/src/App.vue).         *)
(*                                                                         *)
(* The component keeps six reactive fields and seven asynchronous          *)
(* handlers.  A handler runs synchronously up to its `await invoke(...)`,  *)
(* which puts one call in flight at the Command Gateway; the call later    *)
(* resolves or rejects, and the handler's continuation (the rest of the    *)
(* try block, or the catch block) runs.  Handlers, continuations and the   *)
(* two event listeners interleave freely: nothing in the component         *)
(* disables a button while a call is pending.                              *)
(*                                                                         *)
(* A value of type `T | null` is modelled as a sequence: <<>> is null and  *)
(* <<v>> is the value v.  The user-visible texts of the source are         *)
(* Chinese; the model writes them in English, each next to its line.       *)
(***************************************************************************)
EXTENDS Integers, Sequences, FiniteSets, Bags, TLC

VARIABLES
    errorMessage,   \* App.vue:12  ref<string | null>   (spec: lastError)
    actionMessage,  \* App.vue:13  ref<string | null>   (spec: lastActionMessage)
    boardInfo,      \* App.vue:23  ref<BoardInfo | null> (spec: identity)
    selectedBaud,   \* App.vue:86  ref(profile | undefined) (spec: selectedProfile)
    canData,        \* App.vue:111 ref<string>("")      (spec: lastFrame)
    canMessage,     \* App.vue:141 ref<number | null>   (transmit payload)
    calls,          \* bag of the invoke() calls awaiting their result
    phase,          \* the session phase of spec 4.1; the component has no such field
    last            \* the step taken last (history, for stating the claims)

vars == <<errorMessage, actionMessage, boardInfo, selectedBaud, canData,
          canMessage, calls, phase, last>>

-----------------------------------------------------------------------------
(* Bounds and the values the driver and the operator may supply.           *)

\* Most invoke() calls awaiting their result at once.
MaxInFlight == 2

Null == <<>>
Some(v) == <<v>>

\* Texts the driver returns when command cmd succeeds.
StatusTexts(cmd) ==
    CASE cmd = "open_can_device" -> {"opened"}
      [] cmd = "stop_can_device" -> {"stopped"}
      [] OTHER -> {"done"}

\* Texts carried by a rejected call.
FailureTexts == {"E_DEVICE"}

\* Payloads of the "error-message" event.
DriverErrors == {"driver: bus off"}

\* Payloads of the "can-data" event.
Frames == {"ID=123 DATA=0102"}

\* BoardInfo values the driver returns.
Identities ==
    { [hardware_version |-> 1, firmware_version |-> 2, serial_number |-> "ABC123"],
      [hardware_version |-> 3, firmware_version |-> 4, serial_number |-> "XYZ789"] }

\* Numbers the operator types into the transmit input.
Payloads == {0}

-----------------------------------------------------------------------------
(* The baud rate catalog.                                                  *)

baudRates ==
    << [rate |-> "10 Kbps",    timing0 |-> 49,  timing1 |-> 28],
       [rate |-> "20 Kbps",    timing0 |-> 24,  timing1 |-> 28],
       [rate |-> "40 Kbps",    timing0 |-> 135, timing1 |-> 255],
       [rate |-> "50 Kbps",    timing0 |-> 9,   timing1 |-> 28],
       [rate |-> "80 Kbps",    timing0 |-> 131, timing1 |-> 255],
       [rate |-> "100 Kbps",   timing0 |-> 4,   timing1 |-> 28],
       [rate |-> "125 Kbps",   timing0 |-> 3,   timing1 |-> 28],
       [rate |-> "200 Kbps",   timing0 |-> 129, timing1 |-> 250],
       [rate |-> "250 Kbps",   timing0 |-> 1,   timing1 |-> 28],
       [rate |-> "400 Kbps",   timing0 |-> 128, timing1 |-> 250],
       [rate |-> "500 Kbps",   timing0 |-> 0,   timing1 |-> 28],
       [rate |-> "666 Kbps",   timing0 |-> 128, timing1 |-> 182],
       [rate |-> "800 Kbps",   timing0 |-> 0,   timing1 |-> 22],
       [rate |-> "1000 Kbps",  timing0 |-> 0,   timing1 |-> 20],
       [rate |-> "33.33 Kbps", timing0 |-> 9,   timing1 |-> 111],
       [rate |-> "66.66 Kbps", timing0 |-> 4,   timing1 |-> 111],
       [rate |-> "83.33 Kbps", timing0 |-> 3,   timing1 |-> 111] >>

\* baudRates.find((b) => b.rate === label): the first match, or undefined.
Find(label) ==
    LET hits == {i \in 1..Len(baudRates) : baudRates[i].rate = label}
    IN  IF hits = {} THEN Null
        ELSE Some(baudRates[CHOOSE i \in hits : \A j \in hits : i <= j])

\* Labels the operator asks the list for.  "999 Kbps" is the label of no
\* catalog entry, so the list holds no option for it.
PickedLabels == {"250 Kbps", "40 Kbps", "999 Kbps"}

-----------------------------------------------------------------------------
(* Calls in flight.                                                        *)

\* One invoke(): the command, the handler that awaits it, and the arguments
\* that vary (devType 4, devIndex 0, can1 0, can2 1, canChannel 0 are fixed).
\* openResponse is the `response` of openCanDevice, alive in the closure that
\* awaits readBoardInfo().
Call(cmd, caller, t0, t1, data, openResponse) ==
    [cmd |-> cmd, caller |-> caller, timing0 |-> t0, timing1 |-> t1,
     data |-> data, openResponse |-> openResponse]

InFlight == BagToSet(calls)
Issue(c) == calls (+) SetToBag({c})
Settle(c) == calls (-) SetToBag({c})
NumCalls(b) == BagCardinality(b)

\* The command each handler invokes (lines 28, 41, 55, 94, 121, 134, 148).
CommandOf(handler) ==
    CASE handler = "readBoardInfo" -> "read_board_info"
      [] handler = "openCanDevice" -> "open_can_device"
      [] handler = "closeCanDevice" -> "stop_can_device"
      [] handler = "reconnectDevice" -> "reconnect_can_device"
      [] handler = "startReceivingData" -> "start_receiving_data"
      [] handler = "stopReceivingData" -> "stop_receiving_data"
      [] handler = "transmitCanData" -> "transmit_can_data"

\* No call: the `call` of a step that issues and settles none.
NoCall(handler) == Call("", handler, 0, 0, Null, Null)

\* The record of a step: what happened, the call it issued or settled, and
\* the value that came with it (a response, a failure text, an event payload).
Step(ev, call, arg) == [ev |-> ev, call |-> call, arg |-> arg]

\* The phase after command cmd succeeded in phase ph (transition table of
\* spec 4.1; a command the table does not list for ph leaves ph as it is).
PhaseAfter(cmd, ph) ==
    CASE cmd = "open_can_device" /\ ph = "Closed" -> "Open"
      [] cmd = "stop_can_device" -> "Closed"
      [] cmd = "start_receiving_data" /\ ph = "Open" -> "Receiving"
      [] cmd = "stop_receiving_data" /\ ph = "Receiving" -> "Open"
      [] OTHER -> ph

Init ==
    /\ errorMessage = Null
    /\ actionMessage = Null
    /\ boardInfo = Null
    /\ selectedBaud = Find("250 Kbps")
    /\ canData = ""
    /\ canMessage = Null
    /\ calls = EmptyBag
    /\ phase = "Closed"
    /\ last = Step("init", NoCall(""), "")

-----------------------------------------------------------------------------
(* readBoardInfo, App.vue:26-36.                                           *)

\* Lines 28-31: the call readBoardInfo() issues, for the handler that runs it.
ReadBoardInfoCall(caller, openResponse) ==
    Call("read_board_info", caller, 0, 0, Null, openResponse)

\* ReadBoardInfo as it would be with a phase check in front of the call.
ReadBoardInfo_PhaseGuard ==
    IF phase = "Closed"
    THEN /\ errorMessage' = Some("device is not open.")
         /\ last' = Step("invalid", NoCall("readBoardInfo"), "")
         /\ UNCHANGED <<actionMessage, boardInfo, selectedBaud, canData,
                        canMessage, calls, phase>>
    ELSE /\ NumCalls(calls) < MaxInFlight
         /\ calls' = Issue(ReadBoardInfoCall("readBoardInfo", Null))
         /\ last' = Step("invoke", ReadBoardInfoCall("readBoardInfo", Null), "")
         /\ UNCHANGED <<errorMessage, actionMessage, boardInfo, selectedBaud,
                        canData, canMessage, phase>>

\* Click on the "read Board Info" button (line 180).
ReadBoardInfo ==
    /\ NumCalls(calls) < MaxInFlight
    /\ calls' = Issue(ReadBoardInfoCall("readBoardInfo", Null))
    /\ last' = Step("invoke", ReadBoardInfoCall("readBoardInfo", Null), "")
    /\ UNCHANGED <<errorMessage, actionMessage, boardInfo, selectedBaud,
                   canData, canMessage, phase>>

\* ReadBoardInfoResolved that keeps an identity already stored.
ReadBoardInfoResolved_FirstWins(c, response) ==
    /\ boardInfo' = IF boardInfo = Null THEN Some(response) ELSE boardInfo
    /\ calls' = Settle(c)
    /\ UNCHANGED <<errorMessage, actionMessage, selectedBaud, canData, canMessage>>

\* Line 32: the call resolved with `response`.
ReadBoardInfoResolved(c, response) ==
    /\ boardInfo' = Some(response)
    /\ calls' = Settle(c)
    /\ UNCHANGED <<errorMessage, actionMessage, selectedBaud, canData, canMessage>>

\* Lines 33-35: the call was rejected with `error`.
ReadBoardInfoRejected(c, error) ==
    /\ errorMessage' = Some("read Board Info failed: " \o error)
    /\ calls' = Settle(c)
    /\ UNCHANGED <<actionMessage, boardInfo, selectedBaud, canData, canMessage>>

ReadBoardInfoOk ==
    \E c \in InFlight, r \in Identities :
        /\ c.cmd = "read_board_info"
        /\ ReadBoardInfoResolved(c, r)
        /\ phase' = PhaseAfter(c.cmd, phase)
        /\ last' = Step("ok", c, r)

ReadBoardInfoFail ==
    \E c \in InFlight, e \in FailureTexts :
        /\ c.cmd = "read_board_info"
        /\ ReadBoardInfoRejected(c, e)
        /\ phase' = phase
        /\ last' = Step("fail", c, e)

-----------------------------------------------------------------------------
(* openCanDevice, App.vue:39-50.                                           *)

OpenCall == Call("open_can_device", "openCanDevice", 0, 0, Null, Null)

\* Click on the "open" button (line 174): lines 41-44.
OpenCanDevice ==
    /\ NumCalls(calls) < MaxInFlight
    /\ calls' = Issue(OpenCall)
    /\ last' = Step("invoke", OpenCall, "")
    /\ UNCHANGED <<errorMessage, actionMessage, boardInfo, selectedBaud,
                   canData, canMessage, phase>>

\* OpenResolved without line 46: no identity read follows the open.
OpenResolved_NoRead(c, response) ==
    /\ errorMessage' = Some(response)
    /\ calls' = Settle(c)
    /\ UNCHANGED <<actionMessage, boardInfo, selectedBaud, canData, canMessage>>

\* Lines 45-46: the status text is stored, then readBoardInfo() runs up to its
\* own await, which puts its call in flight in the same turn.
OpenResolved(c, response) ==
    /\ errorMessage' = Some(response)
    /\ calls' = Settle(c) (+) SetToBag({ReadBoardInfoCall("openCanDevice", Some(response))})
    /\ UNCHANGED <<actionMessage, boardInfo, selectedBaud, canData, canMessage>>

\* OpenRejected that tries the open again after a failure.
OpenRejected_Retry(c, error) ==
    /\ errorMessage' = Some("open CAN device failed: " \o error)
    /\ calls' = Settle(c) (+) SetToBag({OpenCall})
    /\ UNCHANGED <<actionMessage, boardInfo, selectedBaud, canData, canMessage>>

\* Lines 47-49.
OpenRejected(c, error) ==
    /\ errorMessage' = Some("open CAN device failed: " \o error)
    /\ calls' = Settle(c)
    /\ UNCHANGED <<actionMessage, boardInfo, selectedBaud, canData, canMessage>>

OpenCanDeviceOk ==
    \E c \in InFlight, r \in StatusTexts("open_can_device") :
        /\ c.cmd = "open_can_device"
        /\ OpenResolved(c, r)
        /\ phase' = PhaseAfter(c.cmd, phase)
        /\ last' = Step("ok", c, r)

OpenCanDeviceFail ==
    \E c \in InFlight, e \in FailureTexts :
        /\ c.cmd = "open_can_device"
        /\ OpenRejected(c, e)
        /\ phase' = phase
        /\ last' = Step("fail", c, e)

-----------------------------------------------------------------------------
(* closeCanDevice, App.vue:53-64.                                          *)

StopCall == Call("stop_can_device", "closeCanDevice", 0, 0, Null, Null)

\* Click on the "close" button (line 175): lines 55-58.
CloseCanDevice ==
    /\ NumCalls(calls) < MaxInFlight
    /\ calls' = Issue(StopCall)
    /\ last' = Step("invoke", StopCall, "")
    /\ UNCHANGED <<errorMessage, actionMessage, boardInfo, selectedBaud,
                   canData, canMessage, phase>>

\* CloseResolved without line 60: the identity survives the close.
CloseResolved_KeepsBoardInfo(c, response) ==
    /\ errorMessage' = Some(response)
    /\ calls' = Settle(c)
    /\ UNCHANGED <<actionMessage, boardInfo, selectedBaud, canData, canMessage>>

\* CloseResolved that also empties the frame field on close.
CloseResolved_ClearsFrame(c, response) ==
    /\ errorMessage' = Some(response)
    /\ boardInfo' = Null
    /\ canData' = ""
    /\ calls' = Settle(c)
    /\ UNCHANGED <<actionMessage, selectedBaud, canMessage>>

\* Lines 59-60.
CloseResolved(c, response) ==
    /\ errorMessage' = Some(response)
    /\ boardInfo' = Null
    /\ calls' = Settle(c)
    /\ UNCHANGED <<actionMessage, selectedBaud, canData, canMessage>>

\* CloseRejected without line 62: the failure is not reported.
CloseRejected_Silent(c, error) ==
    /\ calls' = Settle(c)
    /\ UNCHANGED <<errorMessage, actionMessage, boardInfo, selectedBaud,
                   canData, canMessage>>

\* Lines 61-63.
CloseRejected(c, error) ==
    /\ errorMessage' = Some("close CAN device failed: " \o error)
    /\ calls' = Settle(c)
    /\ UNCHANGED <<actionMessage, boardInfo, selectedBaud, canData, canMessage>>

CloseCanDeviceOk ==
    \E c \in InFlight, r \in StatusTexts("stop_can_device") :
        /\ c.cmd = "stop_can_device"
        /\ CloseResolved(c, r)
        /\ phase' = PhaseAfter(c.cmd, phase)
        /\ last' = Step("ok", c, r)

CloseCanDeviceFail ==
    \E c \in InFlight, e \in FailureTexts :
        /\ c.cmd = "stop_can_device"
        /\ CloseRejected(c, e)
        /\ phase' = phase
        /\ last' = Step("fail", c, e)

-----------------------------------------------------------------------------
(* reconnectDevice, App.vue:88-107.                                        *)

\* Line 89: !selectedBaud.value
NoProfile(baud) == baud = Null

\* ReconnectCall with the two timing registers exchanged.
ReconnectCall_Swapped(baud) ==
    Call("reconnect_can_device", "reconnectDevice",
         baud[1].timing1, baud[1].timing0, Null, Null)

\* Lines 94-101: the timing registers are read from the profile selected when
\* the handler runs.
ReconnectCall(baud) ==
    Call("reconnect_can_device", "reconnectDevice",
         baud[1].timing0, baud[1].timing1, Null, Null)

\* Click on the "set" button (line 196).
ReconnectDevice ==
    IF NoProfile(selectedBaud)
    THEN /\ errorMessage' = Some("please select a baud rate.")
         /\ last' = Step("invalid", NoCall("reconnectDevice"), "")
         /\ UNCHANGED <<actionMessage, boardInfo, selectedBaud, canData,
                        canMessage, calls, phase>>
    ELSE /\ NumCalls(calls) < MaxInFlight
         /\ calls' = Issue(ReconnectCall(selectedBaud))
         /\ last' = Step("invoke", ReconnectCall(selectedBaud), "")
         /\ UNCHANGED <<errorMessage, actionMessage, boardInfo, selectedBaud,
                        canData, canMessage, phase>>

\* Line 102.
ReconnectResolved(c, response) ==
    /\ actionMessage' = Some(response)
    /\ calls' = Settle(c)
    /\ UNCHANGED <<errorMessage, boardInfo, selectedBaud, canData, canMessage>>

\* Lines 103-106: the failure text is logged, a fixed message is shown.
ReconnectRejected(c, error) ==
    /\ errorMessage' = Some("reconnect CAN device failed.")
    /\ calls' = Settle(c)
    /\ UNCHANGED <<actionMessage, boardInfo, selectedBaud, canData, canMessage>>

ReconnectDeviceOk ==
    \E c \in InFlight, r \in StatusTexts("reconnect_can_device") :
        /\ c.cmd = "reconnect_can_device"
        /\ ReconnectResolved(c, r)
        /\ phase' = PhaseAfter(c.cmd, phase)
        /\ last' = Step("ok", c, r)

ReconnectDeviceFail ==
    \E c \in InFlight, e \in FailureTexts :
        /\ c.cmd = "reconnect_can_device"
        /\ ReconnectRejected(c, e)
        /\ phase' = phase
        /\ last' = Step("fail", c, e)

-----------------------------------------------------------------------------
(* startReceivingData and stopReceivingData, App.vue:119-139.              *)

StartCall == Call("start_receiving_data", "startReceivingData", 0, 0, Null, Null)
StopReceivingCall == Call("stop_receiving_data", "stopReceivingData", 0, 0, Null, Null)

\* StartReceivingData as it would be with a phase check in front of the call.
StartReceivingData_PhaseGuard ==
    IF phase # "Open"
    THEN /\ errorMessage' = Some("device is not open.")
         /\ last' = Step("invalid", NoCall("startReceivingData"), "")
         /\ UNCHANGED <<actionMessage, boardInfo, selectedBaud, canData,
                        canMessage, calls, phase>>
    ELSE /\ NumCalls(calls) < MaxInFlight
         /\ calls' = Issue(StartCall)
         /\ last' = Step("invoke", StartCall, "")
         /\ UNCHANGED <<errorMessage, actionMessage, boardInfo, selectedBaud,
                        canData, canMessage, phase>>

\* Click on the "start receiving" button (line 209): lines 121-125.
StartReceivingData ==
    /\ NumCalls(calls) < MaxInFlight
    /\ calls' = Issue(StartCall)
    /\ last' = Step("invoke", StartCall, "")
    /\ UNCHANGED <<errorMessage, actionMessage, boardInfo, selectedBaud,
                   canData, canMessage, phase>>

\* StartResolved that also clears the error shown, once a command succeeded.
StartResolved_ClearsError(c) ==
    /\ actionMessage' = Some("start receiving CAN data...")
    /\ errorMessage' = Null
    /\ calls' = Settle(c)
    /\ UNCHANGED <<boardInfo, selectedBaud, canData, canMessage>>

\* Line 126: the command returns nothing; a fixed text is shown.
StartResolved(c) ==
    /\ actionMessage' = Some("start receiving CAN data...")
    /\ calls' = Settle(c)
    /\ UNCHANGED <<errorMessage, boardInfo, selectedBaud, canData, canMessage>>

\* Lines 127-129.
StartRejected(c, error) ==
    /\ errorMessage' = Some("start receiving data failed: " \o error)
    /\ calls' = Settle(c)
    /\ UNCHANGED <<actionMessage, boardInfo, selectedBaud, canData, canMessage>>

StartReceivingDataOk ==
    \E c \in InFlight :
        /\ c.cmd = "start_receiving_data"
        /\ StartResolved(c)
        /\ phase' = PhaseAfter(c.cmd, phase)
        /\ last' = Step("ok", c, "")

StartReceivingDataFail ==
    \E c \in InFlight, e \in FailureTexts :
        /\ c.cmd = "start_receiving_data"
        /\ StartRejected(c, e)
        /\ phase' = phase
        /\ last' = Step("fail", c, e)

\* Click on the "stop receiving" button (line 210): line 134.
StopReceivingData ==
    /\ NumCalls(calls) < MaxInFlight
    /\ calls' = Issue(StopReceivingCall)
    /\ last' = Step("invoke", StopReceivingCall, "")
    /\ UNCHANGED <<errorMessage, actionMessage, boardInfo, selectedBaud,
                   canData, canMessage, phase>>

\* Line 135.
StopReceivingResolved(c, response) ==
    /\ actionMessage' = Some(response)
    /\ calls' = Settle(c)
    /\ UNCHANGED <<errorMessage, boardInfo, selectedBaud, canData, canMessage>>

\* Lines 136-138.
StopReceivingRejected(c, error) ==
    /\ errorMessage' = Some("stop receiving data failed: " \o error)
    /\ calls' = Settle(c)
    /\ UNCHANGED <<actionMessage, boardInfo, selectedBaud, canData, canMessage>>

StopReceivingDataOk ==
    \E c \in InFlight, r \in StatusTexts("stop_receiving_data") :
        /\ c.cmd = "stop_receiving_data"
        /\ StopReceivingResolved(c, r)
        /\ phase' = PhaseAfter(c.cmd, phase)
        /\ last' = Step("ok", c, r)

StopReceivingDataFail ==
    \E c \in InFlight, e \in FailureTexts :
        /\ c.cmd = "stop_receiving_data"
        /\ StopReceivingRejected(c, e)
        /\ phase' = phase
        /\ last' = Step("fail", c, e)

-----------------------------------------------------------------------------
(* transmitCanData, App.vue:141-158.                                       *)

\* Line 143 written as a falsy test, !canMessage.value.
PayloadAbsent_Falsy(message) == message = Null \/ message = Some(0)

\* Line 143 with the test left out.
PayloadAbsent_Never(message) == FALSE

\* Line 143: canMessage.value === null
PayloadAbsent(message) == message = Null

\* Lines 148-153: the payload is the number held when the handler runs.
TransmitCall(message) ==
    Call("transmit_can_data", "transmitCanData", 0, 0, message, Null)

\* Click on the "transmit" button (line 203).
TransmitCanData ==
    IF PayloadAbsent(canMessage)
    THEN /\ errorMessage' = Some("please enter the data to transmit.")
         /\ last' = Step("invalid", NoCall("transmitCanData"), "")
         /\ UNCHANGED <<actionMessage, boardInfo, selectedBaud, canData,
                        canMessage, calls, phase>>
    ELSE /\ NumCalls(calls) < MaxInFlight
         /\ calls' = Issue(TransmitCall(canMessage))
         /\ last' = Step("invoke", TransmitCall(canMessage), "")
         /\ UNCHANGED <<errorMessage, actionMessage, boardInfo, selectedBaud,
                        canData, canMessage, phase>>

\* Line 154.
TransmitResolved(c, response) ==
    /\ actionMessage' = Some(response)
    /\ calls' = Settle(c)
    /\ UNCHANGED <<errorMessage, boardInfo, selectedBaud, canData, canMessage>>

\* Lines 155-157.
TransmitRejected(c, error) ==
    /\ errorMessage' = Some("transmit CAN data failed: " \o error)
    /\ calls' = Settle(c)
    /\ UNCHANGED <<actionMessage, boardInfo, selectedBaud, canData, canMessage>>

TransmitCanDataOk ==
    \E c \in InFlight, r \in StatusTexts("transmit_can_data") :
        /\ c.cmd = "transmit_can_data"
        /\ TransmitResolved(c, r)
        /\ phase' = PhaseAfter(c.cmd, phase)
        /\ last' = Step("ok", c, r)

TransmitCanDataFail ==
    \E c \in InFlight, e \in FailureTexts :
        /\ c.cmd = "transmit_can_data"
        /\ TransmitRejected(c, e)
        /\ phase' = phase
        /\ last' = Step("fail", c, e)

-----------------------------------------------------------------------------
(* The event listeners and the two form controls.                          *)

\* The listener that keeps an error already shown.
OnErrorMessage_KeepsFirst(payload) ==
    /\ errorMessage' = IF errorMessage = Null THEN Some(payload) ELSE errorMessage
    /\ UNCHANGED <<actionMessage, boardInfo, selectedBaud, canData,
                   canMessage, calls, phase>>

\* Lines 17-19: listen("error-message", ...).
OnErrorMessage(payload) ==
    /\ errorMessage' = Some(payload)
    /\ UNCHANGED <<actionMessage, boardInfo, selectedBaud, canData,
                   canMessage, calls, phase>>

ErrorMessageEvent ==
    \E e \in DriverErrors :
        /\ OnErrorMessage(e)
        /\ last' = Step("error-message", NoCall(""), e)

\* The listener with a phase check: frames outside Receiving are dropped.
OnCanData_WhenReceiving(payload) ==
    /\ canData' = IF phase = "Receiving" THEN payload ELSE canData
    /\ UNCHANGED <<errorMessage, actionMessage, boardInfo, selectedBaud,
                   canMessage, calls, phase>>

\* Lines 114-116: listen("can-data", ...).
OnCanData(payload) ==
    /\ canData' = payload
    /\ UNCHANGED <<errorMessage, actionMessage, boardInfo, selectedBaud,
                   canMessage, calls, phase>>

CanDataEvent ==
    \E f \in Frames :
        /\ OnCanData(f)
        /\ last' = Step("can-data", NoCall(""), f)

\* A selection that assigns whatever the lookup returns, undefined included.
SelectBaud_Unchecked ==
    \E label \in PickedLabels :
        /\ selectedBaud' = Find(label)
        /\ last' = Step("select", NoCall(""), label)
        /\ UNCHANGED <<errorMessage, actionMessage, boardInfo, canData,
                       canMessage, calls, phase>>

\* Lines 191-195: <select v-model="selectedBaud"> over the catalog's options;
\* the value of an option is the catalog entry itself.  A label with no option
\* cannot be picked: the model never receives an assignment and nothing else
\* runs.
SelectBaud ==
    \E label \in PickedLabels :
        /\ selectedBaud' = IF Find(label) = Null THEN selectedBaud ELSE Find(label)
        /\ last' = Step("select", NoCall(""), label)
        /\ UNCHANGED <<errorMessage, actionMessage, boardInfo, canData,
                       canMessage, calls, phase>>

\* Line 202: <input v-model.number="canMessage" type="number">.
InputCanMessage ==
    \E n \in Payloads :
        /\ canMessage' = Some(n)
        /\ last' = Step("input", NoCall(""), n)
        /\ UNCHANGED <<errorMessage, actionMessage, boardInfo, selectedBaud,
                       canData, calls, phase>>

-----------------------------------------------------------------------------

Next ==
    \/ ReadBoardInfo \/ ReadBoardInfoOk \/ ReadBoardInfoFail
    \/ OpenCanDevice \/ OpenCanDeviceOk \/ OpenCanDeviceFail
    \/ CloseCanDevice \/ CloseCanDeviceOk \/ CloseCanDeviceFail
    \/ ReconnectDevice \/ ReconnectDeviceOk \/ ReconnectDeviceFail
    \/ StartReceivingData \/ StartReceivingDataOk \/ StartReceivingDataFail
    \/ StopReceivingData \/ StopReceivingDataOk \/ StopReceivingDataFail
    \/ TransmitCanData \/ TransmitCanDataOk \/ TransmitCanDataFail
    \/ ErrorMessageEvent \/ CanDataEvent \/ SelectBaud \/ InputCanMessage

Spec == Init /\ [][Next]_vars

\* The values each variable holds.
TypeOK ==
    /\ errorMessage = Null \/ Len(errorMessage) = 1
    /\ actionMessage = Null \/ Len(actionMessage) = 1
    /\ boardInfo = Null \/ boardInfo[1] \in Identities
    /\ Len(selectedBaud) = 1 /\ \E i \in 1..Len(baudRates) : selectedBaud[1] = baudRates[i]
    /\ canData \in Frames \cup {""}
    /\ canMessage = Null \/ canMessage[1] \in Payloads
    /\ NumCalls(calls) <= MaxInFlight
    /\ phase \in {"Closed", "Open", "Receiving"}

-----------------------------------------------------------------------------
(* The claims.  A step is recognised by the record it leaves in `last`:    *)
(* "invoke" and "invalid" are the runs of a handler up to its await or its *)
(* early return, "ok" and "fail" the continuations of a settled call.      *)

\* The step is a run of a handler other than openCanDevice.
InvokedOtherThanOpen(step) ==
    /\ step.ev \in {"invoke", "invalid"}
    /\ step.call.caller # "openCanDevice"

\* The local validation of handler h fails in the current state.
ValidationFails(h) ==
    \/ h = "reconnectDevice" /\ selectedBaud = Null
    \/ h = "transmitCanData" /\ canMessage = Null

ValidationMessages ==
    {Some("please select a baud rate."), Some("please enter the data to transmit.")}

C2_IdentityOnlyWhileOpen == phase = "Closed" => boardInfo = Null

NumOf(b, cmd) ==
    LET cs == {c \in BagToSet(b) : c.cmd = cmd}
    IN  BagCardinality([c \in cs |-> b[c]])

\* Calls of command cmd in flight on behalf of handler h.
NumFor(b, cmd, h) ==
    LET cs == {c \in BagToSet(b) : c.cmd = cmd /\ c.caller = h}
    IN  BagCardinality([c \in cs |-> b[c]])

\* C4: a step in which an open call resolves puts exactly one readIdentity call
\* in flight, and no other step issues a readIdentity call for open(); when that
\* call fails, phase and identity stay as they were (Open and absent in the run
\* from Closed).
C4_OpenThenOneRead ==
    [][ /\ (last'.ev = "ok" /\ last'.call.cmd = "open_can_device")
            => /\ calls' = (calls (-) SetToBag({last'.call}))
                              (+) SetToBag({ReadBoardInfoCall("openCanDevice", Some(last'.arg))})
               /\ NumOf(calls', "read_board_info") = NumOf(calls, "read_board_info") + 1
        /\ NumFor(calls', "read_board_info", "openCanDevice")
              > NumFor(calls, "read_board_info", "openCanDevice")
            => (last'.ev = "ok" /\ last'.call.cmd = "open_can_device")
        /\ (last'.ev = "fail" /\ last'.call.cmd = "read_board_info"
                /\ last'.call.caller = "openCanDevice")
            => UNCHANGED <<phase, boardInfo>> ]_vars

\* C4 witness: the read issued by open() has just failed; the session is Open
\* and has no identity.
C4_Witness ==
    /\ last.ev = "fail"
    /\ last.call.cmd = "read_board_info"
    /\ last.call.caller = "openCanDevice"
    /\ phase = "Open"
    /\ boardInfo = Null

\* C5 as stated: when the readIdentity call of an open() resolves with identity
\* i and the session is Open, identity = i and lastActionMessage is the status
\* text s the open call returned.
C5_OpenScenario ==
    (/\ last.ev = "ok"
     /\ last.call.cmd = "read_board_info"
     /\ last.call.caller = "openCanDevice"
     /\ phase = "Open")
        => (boardInfo = Some(last.arg) /\ actionMessage = last.call.openResponse)

\* The commands that return on success without an identity.
StatusCommands ==
    {"open_can_device", "stop_can_device", "reconnect_can_device",
     "start_receiving_data", "stop_receiving_data", "transmit_can_data"}

\* C6 as stated: a successful call of one of the six commands sets
\* lastActionMessage and leaves lastError as it was; identity and lastFrame
\* change only on close.
C6_SuccessSetsActionOnly ==
    [][ (last'.ev = "ok" /\ last'.call.cmd \in StatusCommands)
          => /\ actionMessage' # Null
             /\ errorMessage' = errorMessage
             /\ last'.call.cmd # "stop_can_device"
                    => UNCHANGED <<boardInfo, canData>> ]_vars

\* C7: a handler whose local validation fails issues no call, sets lastError to
\* its validation message and leaves phase, identity, lastFrame and
\* lastActionMessage as they were.
C7_InvalidIsLocal ==
    [][ (last'.ev \in {"invoke", "invalid"} /\ ValidationFails(last'.call.caller))
          => /\ calls' = calls
             /\ errorMessage' \in ValidationMessages
             /\ UNCHANGED <<phase, boardInfo, canData, actionMessage>> ]_vars

\* C7 witness: transmit ran with a null payload and was refused locally.
C7_Witness ==
    /\ last.ev = "invalid"
    /\ last.call.caller = "transmitCanData"
    /\ canMessage = Null
    /\ errorMessage = Some("please enter the data to transmit.")
    /\ NumOf(calls, "transmit_can_data") = 0

\* C8: transmit with payload 0 issues a transmit call carrying 0 and sets no
\* error; transmit is refused locally only when the payload is null.
C8_ZeroIsPresent ==
    [][ (last'.ev \in {"invoke", "invalid"} /\ last'.call.caller = "transmitCanData")
          => /\ canMessage = Some(0)
                   => /\ calls' = calls (+) SetToBag({TransmitCall(Some(0))})
                      /\ last'.call.cmd = "transmit_can_data"
                      /\ errorMessage' = errorMessage
             /\ calls' = calls => canMessage = Null ]_vars

\* C8 witness: a transmit call carrying payload 0 is in flight.
C8_Witness ==
    /\ last.ev = "invoke"
    /\ last.call.cmd = "transmit_can_data"
    /\ last.call.data = Some(0)
    /\ BagIn(last.call, calls)

\* C9: a failed call of any command, in any phase, leaves phase as it was and
\* sets lastError.
C9_FailureKeepsPhase ==
    [][ last'.ev = "fail" => (phase' = phase /\ errorMessage' # Null) ]_vars

\* C9 witness: a stop call failed while Receiving; the session is still
\* Receiving and the error is shown.
C9_Witness ==
    /\ last.ev = "fail"
    /\ last.call.cmd = "stop_can_device"
    /\ phase = "Receiving"
    /\ errorMessage = Some("close CAN device failed: " \o last.arg)

\* C10: a frame notification sets lastFrame to its payload in every phase and
\* leaves phase, identity, lastError and lastActionMessage as they were.
C10_FrameSetsLastFrame ==
    [][ last'.ev = "can-data"
          => /\ canData' = last'.arg
             /\ UNCHANGED <<phase, boardInfo, errorMessage, actionMessage>> ]_vars

\* C10 witness: a frame arrived while the session was Closed and was recorded.
C10_Witness ==
    /\ last.ev = "can-data"
    /\ phase = "Closed"
    /\ canData = last.arg
    /\ canData \in Frames

\* C11 as stated: lastFrame changes only in steps taken while phase =
\* Receiving.
C11_FrameOnlyWhileReceiving ==
    [][ canData' # canData => phase = "Receiving" ]_vars

\* C11 amended: lastFrame changes only in a frame notification, which sets it
\* to the payload in whatever phase it arrives; no operation and no call
\* completion assigns or clears lastFrame.
C11_FrameOnlyByNotification ==
    [][ canData' # canData
          => (last'.ev = "can-data" /\ canData' = last'.arg) ]_vars

\* C11 witness: a frame arrived while the session was Open, not Receiving, and
\* was recorded.
C11_Witness ==
    /\ last.ev = "can-data"
    /\ phase = "Open"
    /\ canData = last.arg

\* C12: a driverError notification sets lastError to its payload in every
\* phase, whatever lastError held, and changes no other field.
C12_DriverErrorOverwrites ==
    [][ last'.ev = "error-message"
          => /\ errorMessage' = Some(last'.arg)
             /\ UNCHANGED <<actionMessage, boardInfo, selectedBaud, canData,
                            canMessage, calls, phase>> ]_vars

\* C12 witness: the notification arrived right after foreground calls had
\* completed (an action message is shown, the session is Receiving) and its
\* payload is the error shown.
C12_Witness ==
    /\ last.ev = "error-message"
    /\ last.arg \in DriverErrors
    /\ errorMessage = Some(last.arg)
    /\ actionMessage # Null
    /\ phase = "Receiving"

\* The step asks the list for a label that no catalog entry has.
SelectsUnknown(step) == step.ev = "select" /\ Find(step.arg) = Null

\* Exactly one catalog profile is selected.
OneProfileSelected ==
    /\ Len(selectedBaud) = 1
    /\ Cardinality({i \in 1..Len(baudRates) : baudRates[i] = selectedBaud[1]}) = 1

InvokedReceiving(step) ==
    /\ step.ev \in {"invoke", "invalid"}
    /\ step.call.caller \in {"startReceivingData", "stopReceivingData"}

C15_ReconfigureCarriesTiming ==
    [][ /\ (last'.ev \in {"invoke", "invalid"}
                /\ last'.call.caller = "reconnectDevice" /\ selectedBaud # Null)
            => /\ last'.call.cmd = "reconnect_can_device"
               /\ last'.call.timing0 = selectedBaud[1].timing0
               /\ last'.call.timing1 = selectedBaud[1].timing1
               /\ calls' = calls (+) SetToBag({last'.call})
               /\ UNCHANGED <<phase, boardInfo, canData>>
        /\ (last'.ev \in {"ok", "fail"} /\ last'.call.cmd = "reconnect_can_device")
            => /\ calls' = calls (-) SetToBag({last'.call})
               /\ NumOf(calls', "read_board_info") = NumOf(calls, "read_board_info")
               /\ UNCHANGED <<phase, boardInfo, canData>> ]_vars

\* C15 witness: reconfigure() ran with "40 Kbps" selected and its call, with
\* timing 0x87/0xFF, is in flight.
C15_Witness ==
    /\ last.ev = "invoke"
    /\ last.call.cmd = "reconnect_can_device"
    /\ selectedBaud = Find("40 Kbps")
    /\ last.call.timing0 = 135
    /\ last.call.timing1 = 255
    /\ BagIn(last.call, calls)

\* C16: no failure is retried.  The run of a handler issues exactly its one
\* call, or none when its validation fails; a failed call is removed and
\* nothing is issued in its place; a successful call is removed and nothing is
\* issued in its place, except that a successful open is followed by its one
\* readIdentity call; notifications and form input issue nothing.  A failed
\* open call issues no readIdentity call and leaves the identity as it was.
C16_NoRetry ==
    [][ /\ last'.ev = "invoke"
            => /\ last'.call.cmd = CommandOf(last'.call.caller)
               /\ calls' = calls (+) SetToBag({last'.call})
        /\ last'.ev = "fail"
            => calls' = calls (-) SetToBag({last'.call})
        /\ (last'.ev = "ok" /\ last'.call.cmd # "open_can_device")
            => calls' = calls (-) SetToBag({last'.call})
        /\ (last'.ev = "ok" /\ last'.call.cmd = "open_can_device")
            => /\ NumOf(calls', "open_can_device") = NumOf(calls, "open_can_device") - 1
               /\ NumOf(calls', "read_board_info") = NumOf(calls, "read_board_info") + 1
               /\ NumCalls(calls') = NumCalls(calls)
        /\ last'.ev \notin {"invoke", "ok", "fail"}
            => calls' = calls
        /\ (last'.ev = "fail" /\ last'.call.cmd = "open_can_device")
            => /\ boardInfo' = boardInfo
               /\ NumOf(calls', "read_board_info") = NumOf(calls, "read_board_info") ]_vars

\* C16 witness: an open call has just failed; nothing is in flight and the
\* identity read earlier is still there.
C16_Witness ==
    /\ last.ev = "fail"
    /\ last.call.cmd = "open_can_device"
    /\ calls = EmptyBag
    /\ boardInfo # Null
    /\ errorMessage = Some("open CAN device failed: " \o last.arg)

\* C17: the identity is absent or one whole response of the driver.  A
\* readIdentity call that resolves sets it to its response, whatever it held
\* and whatever other readIdentity calls are in flight, so the response that
\* resolves last is the one kept; a failed readIdentity and a failed close
\* leave it as it was; it changes in no step other than a resolved readIdentity
\* and a successful close, which clears it.
C17_IdentityWholeLastWins ==
    /\ [](boardInfo = Null \/ (Len(boardInfo) = 1 /\ boardInfo[1] \in Identities))
    /\ [][ /\ (last'.ev = "ok" /\ last'.call.cmd = "read_board_info")
               => boardInfo' = Some(last'.arg)
           /\ (last'.ev = "fail"
                   /\ last'.call.cmd \in {"read_board_info", "stop_can_device"})
               => boardInfo' = boardInfo
           /\ boardInfo' # boardInfo
               => \/ last'.ev = "ok" /\ last'.call.cmd = "read_board_info"
                  \/ last'.ev = "ok" /\ last'.call.cmd = "stop_can_device"
                        /\ boardInfo' = Null ]_vars

\* C17 witness: a manual readIdentity resolved while the read issued by open()
\* is still in flight, and the identity shown is its response.
C17_Witness ==
    /\ last.ev = "ok"
    /\ last.call.cmd = "read_board_info"
    /\ last.call.caller = "readBoardInfo"
    /\ NumFor(calls, "read_board_info", "openCanDevice") = 1
    /\ boardInfo = Some(last.arg)

\* C18: lastError and lastActionMessage are sticky: once either holds a
\* message, no step makes it absent again.
C18_MessagesSticky ==
    [][ /\ errorMessage # Null => errorMessage' # Null
        /\ actionMessage # Null => actionMessage' # Null ]_vars

\* C18 witness: a close() has just succeeded and both messages are still
\* shown; the error field holds the text of the close.
C18_Witness ==
    /\ last.ev = "ok"
    /\ last.call.cmd = "stop_can_device"
    /\ phase = "Closed"
    /\ actionMessage # Null
    /\ errorMessage = Some(last.arg)

=============================================================================
